---- MODULE Spec2Model ----
(***************************************************************************)
(* Model of src/cli.py: the command line front end of the strikeout        *)
(* projection engine.  One process parses its arguments, configures        *)
(* logging, awaits auto_project_strikeouts inside run_prediction, formats  *)
(* the result and prints it; the __main__ block handles what escapes.      *)
(*                                                                         *)
(* Numbers are Python ints or floats; a float is kept as a count of        *)
(* quarters (q stands for q/4), which a binary float holds exactly, so     *)
(* that the rounding of the ".1f" format is the one Python performs.       *)
(* Strings are ASCII: the warning sign that opens the "no projection"      *)
(* message is written "(!)".                                               *)
(*                                                                         *)
(* An interrupt (SIGINT) reaches the code in one of the ways asyncio.run   *)
(* allows.  It is raised as KeyboardInterrupt where the process is (the    *)
(* default handler), or, where asyncio.run installs its own handler        *)
(* (Python 3.11 and later), it cancels main: suspended at the await, main  *)
(* gets CancelledError there at once; running, it gets it at its next      *)
(* suspension; and when main ends cancelled, asyncio.run raises            *)
(* KeyboardInterrupt.  One interrupt per run is modelled.                  *)
(***************************************************************************)
EXTENDS Integers, Sequences, FiniteSets, TLC

\* ---------------------------------------------------------------- bounds
\* floats range over -1/4 .. MaxQuarters/4
MaxQuarters == 4
\* the largest exit status the engine passes to SystemExit
MaxExitCode == 3

\* ---------------------------------------------------------------- values
StrV(s)   == [t |-> "str",   n |-> 0, s |-> s]
IntV(n)   == [t |-> "int",   n |-> n, s |-> ""]
FloatV(q) == [t |-> "float", n |-> q, s |-> ""]
NoneV     == [t |-> "none",  n |-> 0, s |-> ""]
\* marks a key the mapping does not hold (never a value of the mapping)
Missing   == [t |-> "missing", n |-> 0, s |-> ""]

Abs(n) == IF n < 0 THEN -n ELSE n
Sign(n) == IF n < 0 THEN "-" ELSE ""

\* an exception object: its class, str(e), and the status of a SystemExit
Exc(kind, msg) == [kind |-> kind, msg |-> msg, code |-> 0]
SystemExit(c) == [kind |-> "SystemExit", msg |-> ToString(c), code |-> c]
NoExc == [kind |-> "none", msg |-> "", code |-> 0]
KeyboardInterrupt == Exc("KeyboardInterrupt", "")
CancelledError == Exc("CancelledError", "")

\* the classes of Python's hierarchy below Exception; KeyboardInterrupt,
\* SystemExit and asyncio.CancelledError derive from BaseException only
ExceptionClasses == {"RuntimeError", "KeyError", "TypeError", "ValueError"}

\* str(v), the conversion of an f-string field without a format
Str(v) ==
  CASE v.t = "str"   -> v.s
    [] v.t = "int"   -> ToString(v.n)
    [] v.t = "float" ->
         Sign(v.n) \o ToString(Abs(v.n) \div 4) \o "." \o
         (CASE Abs(v.n) % 4 = 0 -> "0"
            [] Abs(v.n) % 4 = 1 -> "25"
            [] Abs(v.n) % 4 = 2 -> "5"
            [] Abs(v.n) % 4 = 3 -> "75")
    [] OTHER -> "None"

Ok(text) == [ok |-> TRUE, text |-> text, exc |-> NoExc]
Raise(e) == [ok |-> FALSE, text |-> "", exc |-> e]
\* format_result's outcome: the list it built and the text it returns, or
\* the exception it raises
Formatted(lines, text) == [ok |-> TRUE, output |-> lines, text |-> text, exc |-> NoExc]
FormatRaises(e) == [ok |-> FALSE, output |-> <<>>, text |-> "", exc |-> e]

\* format(v, ".1f"): one decimal, ties to the even digit (x.25 -> x.2,
\* x.75 -> x.8); None and str reject the format
Fmt1f(v) ==
  CASE v.t = "int"   -> Ok(ToString(v.n) \o ".0")
    [] v.t = "float" ->
         Ok(Sign(v.n) \o ToString(Abs(v.n) \div 4) \o "." \o
            (CASE Abs(v.n) % 4 = 0 -> "0"
               [] Abs(v.n) % 4 = 1 -> "2"
               [] Abs(v.n) % 4 = 2 -> "5"
               [] Abs(v.n) % 4 = 3 -> "8"))
    [] v.t = "str"   ->
         Raise(Exc("ValueError", "Unknown format code 'f' for object of type 'str'"))
    [] OTHER ->
         Raise(Exc("TypeError", "unsupported format string passed to NoneType.__format__"))

\* ---------------------------------------------------------------- results
Keys == {"pitcher", "opponent", "mean", "vegas_line", "edge", "prob_over_6.5",
         "lineup_source"}

\* Optional[Dict]: None, or a mapping from some of the keys to values
EmptyMap == [k \in {} |-> NoneV]
None == [some |-> FALSE, d |-> EmptyMap]
Dict(d) == [some |-> TRUE, d |-> d]

\* result.get(key): the default is dropped
Get_NoDefault(d, key, default) == IF key \in DOMAIN d THEN d[key] ELSE NoneV

\* result.get(key) or default: a None value is replaced by the default too
Get_OrDefault(d, key, default) ==
  IF key \in DOMAIN d /\ d[key] # NoneV THEN d[key] ELSE default

\* result.get(key, default)
Get(d, key, default) == IF key \in DOMAIN d THEN d[key] ELSE default

\* result[key]
Subscript(d, key) ==
  IF key \in DOMAIN d THEN [ok |-> TRUE, v |-> d[key], exc |-> NoExc]
  ELSE [ok |-> FALSE, v |-> NoneV, exc |-> Exc("KeyError", "'" \o key \o "'")]

NoProjection == "(!) No projection available"

RECURSIVE Join(_)
\* "\n".join(output)
Join(output) ==
  IF Len(output) = 0 THEN ""
  ELSE IF Len(output) = 1 THEN output[1]
  ELSE output[1] \o "\n" \o Join(Tail(output))

\* the list of lines built at lines 35-42; the elements are evaluated in
\* order, and the first one that raises ends the call
OutputLines(d) ==
  LET pitcher  == Subscript(d, "pitcher")
      opponent == Subscript(d, "opponent")
      mean     == Subscript(d, "mean")
      meanText == Fmt1f(mean.v)
      probText == Fmt1f(Get(d, "prob_over_6.5", IntV(0)))
  IN  IF ~pitcher.ok THEN [ok |-> FALSE, lines |-> <<>>, exc |-> pitcher.exc]
      ELSE IF ~opponent.ok THEN [ok |-> FALSE, lines |-> <<>>, exc |-> opponent.exc]
      ELSE IF ~mean.ok THEN [ok |-> FALSE, lines |-> <<>>, exc |-> mean.exc]
      ELSE IF ~meanText.ok THEN [ok |-> FALSE, lines |-> <<>>, exc |-> meanText.exc]
      ELSE IF ~probText.ok THEN [ok |-> FALSE, lines |-> <<>>, exc |-> probText.exc]
      ELSE [ok |-> TRUE, exc |-> NoExc, lines |->
             << "\n=== " \o Str(pitcher.v) \o " vs " \o Str(opponent.v) \o " ===",
                "Projected Ks: " \o meanText.text,
                "Vegas Line: " \o Str(Get(d, "vegas_line", StrV("N/A"))),
                "Edge: " \o Str(Get(d, "edge", StrV("N/A"))),
                "Over 6.5 Probability: " \o probText.text \o "%",
                "Key Stats: " \o Str(Get(d, "lineup_source", StrV("Lineup source unknown"))) >>]

\* "if result is None": an empty mapping is formatted like any other
format_result_IsNone(result) ==
  IF ~result.some THEN Formatted(<<>>, NoProjection)
  ELSE LET built == OutputLines(result.d)
       IN  IF built.ok THEN Formatted(built.lines, Join(built.lines))
           ELSE FormatRaises(built.exc)

\* format_result(result): the text, or the exception it raises
format_result(result) ==
  IF ~result.some \/ DOMAIN result.d = {} THEN Formatted(<<>>, NoProjection)
  ELSE LET built == OutputLines(result.d)
       IN  IF built.ok THEN Formatted(built.lines, Join(built.lines))
           ELSE FormatRaises(built.exc)

\* the mappings the engine may hand back: each key missing or present, the
\* numeric keys also present with a value that is not a number
Floats == {FloatV(q) : q \in (-1)..MaxQuarters}
MeanValues == {Missing, NoneV, StrV("n/a"), IntV(7)} \cup Floats
ProbValues == {Missing, NoneV, StrV("high"), IntV(0)} \cup Floats

MkDict(p, o, m, v, e, pr, l) ==
  LET all == [k \in Keys |->
                CASE k = "pitcher" -> p [] k = "opponent" -> o [] k = "mean" -> m
                  [] k = "vegas_line" -> v [] k = "edge" -> e
                  [] k = "prob_over_6.5" -> pr [] OTHER -> l]
  IN  Dict([k \in {x \in Keys : all[x] # Missing} |-> all[k]])

Results ==
  {None} \cup
  { MkDict(p, o, m, v, e, pr, l) :
      p \in {Missing, StrV("Paul Skenes")}, o \in {Missing, StrV("PHI")},
      m \in MeanValues, v \in {Missing, NoneV, FloatV(26)},
      e \in {Missing, FloatV(-3)}, pr \in ProbValues,
      l \in {Missing, StrV("Confirmed lineup")} }

\* what the awaited call can do: return a result, or raise
Returned(r) == [returned |-> TRUE, value |-> r, exc |-> NoExc]
Raised(e)   == [returned |-> FALSE, value |-> None, exc |-> e]
NoOutcome   == [returned |-> FALSE, value |-> None, exc |-> NoExc]

EngineExceptions ==
  {Exc("RuntimeError", "network timeout"), Exc("ValueError", ""),
   CancelledError} \cup {SystemExit(c) : c \in 0..MaxExitCode}

\* ---------------------------------------------------------------- command line
\* an invocation: the command word ("" when none is given), the values of
\* --pitcher, --opponent and --park (Missing when the flag is not given), --debug
Invocations ==
  [command : {"", "predict", "bogus"},
   pitcher : {Missing, StrV("Paul Skenes")},
   opponent : {Missing, StrV("PHI")},
   park : {Missing, StrV("PNC Park")},
   debug : BOOLEAN]

\* --pitcher declared without required=True
parse_accepts_PitcherOptional(argv) ==
  /\ argv.command = "predict"
  /\ argv.opponent # Missing

\* setup_parser: the subcommand is required and "predict" is the only one;
\* --pitcher and --opponent are required
parse_accepts(argv) ==
  /\ argv.command = "predict"
  /\ argv.pitcher # Missing
  /\ argv.opponent # Missing

\* the namespace parse_args returns: --park defaults to ""
Namespace(argv) ==
  [command |-> argv.command, pitcher |-> argv.pitcher.s, opponent |-> argv.opponent.s,
   park |-> IF argv.park = Missing THEN "" ELSE argv.park.s, debug |-> argv.debug]

\* ---------------------------------------------------------------- logging
LevelNo(level) ==
  CASE level = "DEBUG" -> 10 [] level = "INFO" -> 20 [] level = "WARNING" -> 30
    [] OTHER -> 40

\* logging.error(msg): the root logger emits records at or above its level
\* (WARNING while basicConfig has not run); a record carries the name of the
\* function that logged it
LoggedError(log, logLevel, funcName, msg) ==
  IF LevelNo("ERROR") >= LevelNo(IF logLevel = "unset" THEN "WARNING" ELSE logLevel)
  THEN Append(log, [level |-> "ERROR", funcName |-> funcName, msg |-> msg])
  ELSE log

\* the message without the exception's text
PredictionFailed_NoText(e) == "Prediction failed"

PredictionFailed(e) == "Prediction failed: " \o e.msg
FatalError(e) == "Fatal error: " \o e.msg
Cancelled == "\nOperation cancelled by user"

\* "except ValueError": a handler narrower than the code's
run_prediction_catches_ValueError(e) == e.kind = "ValueError"

\* "except BaseException": a handler wider than the code's
run_prediction_catches_All(e) == TRUE

\* "except Exception" in run_prediction
run_prediction_catches(e) == e.kind \in ExceptionClasses

\* "except KeyError" in the __main__ block
main_catches_KeyError(e) == e.kind = "KeyError"

\* "except Exception" in the __main__ block
main_catches(e) == e.kind \in ExceptionClasses

\* ---------------------------------------------------------------- state
VARIABLES
  argv,       \* the invocation
  pc,         \* where the process is
  logLevel,   \* the root logger's level, "unset" before basicConfig
  log,        \* the records logging has emitted
  stdout,     \* what print has written, one entry per call
  stderr,     \* what else reached stderr: "usage", "traceback"
  calls,      \* the argument triples auto_project_strikeouts was called with
  engineOut,  \* what the awaited call did
  result,     \* main's local: what run_prediction returned
  output,     \* format_result's local: the list of lines it built
  text,       \* what format_result returned
  exc,        \* the exception in flight, or the one that ended the run
  exitCode,   \* the process's exit status, -1 while it runs
  sigint,     \* the user has interrupted the run
  steps       \* the steps of main taken so far

vars == <<argv, pc, logLevel, log, stdout, stderr, calls, engineOut, result, output,
          text, exc, exitCode, sigint, steps>>

Init ==
  /\ argv \in Invocations
  /\ pc = "parse"
  /\ logLevel = "unset"
  /\ log = <<>>
  /\ stdout = <<>>
  /\ stderr = <<>>
  /\ calls = <<>>
  /\ engineOut = NoOutcome
  /\ result = None
  /\ output = <<>>
  /\ text = ""
  /\ exc = NoExc
  /\ exitCode = -1
  /\ sigint = FALSE
  /\ steps = <<>>

\* lines 47-48: parse_args; a rejected command line prints the usage and
\* raises SystemExit(2)
ParseArgs ==
  /\ pc = "parse"
  /\ steps' = Append(steps, "parse_args")
  /\ IF parse_accepts(argv)
     THEN /\ pc' = "config"
          /\ UNCHANGED <<stderr, exc>>
     ELSE /\ pc' = "raised"
          /\ stderr' = Append(stderr, "usage")
          /\ exc' = SystemExit(2)
  /\ UNCHANGED <<argv, logLevel, log, stdout, calls, engineOut, result, output, text, exitCode, sigint>>

\* lines 51-56: basicConfig, then the test of the command
ConfigureLogging ==
  /\ pc = "config"
  /\ steps' = Append(steps, "basicConfig")
  /\ logLevel' = IF Namespace(argv).debug THEN "DEBUG" ELSE "INFO"
  /\ pc' = IF Namespace(argv).command = "predict" THEN "call" ELSE "returned"
  /\ UNCHANGED <<argv, log, stdout, stderr, calls, engineOut, result, output, text, exc, exitCode, sigint>>

\* lines 57, 25: run_prediction is entered and calls the engine
CallEngine ==
  /\ pc = "call"
  /\ steps' = Append(steps, "run_prediction")
  /\ calls' = Append(calls, <<Namespace(argv).pitcher, Namespace(argv).opponent,
                              Namespace(argv).park>>)
  /\ pc' = "await"
  /\ UNCHANGED <<argv, logLevel, log, stdout, stderr, engineOut, result, output, text, exc, exitCode, sigint>>

\* the handler logs and then re-raises instead of returning None
AwaitRaises_Reraise(e) ==
  /\ log' = IF run_prediction_catches(e)
             THEN LoggedError(log, logLevel, "run_prediction", PredictionFailed(e))
             ELSE log
  /\ exc' = e
  /\ pc' = "raised"
  /\ UNCHANGED result

\* the handler calls the engine once more after a failure
AwaitRaises_Retry(e) ==
  IF run_prediction_catches(e)
  THEN /\ log' = LoggedError(log, logLevel, "run_prediction", PredictionFailed(e))
       /\ result' = None
       /\ pc' = IF Len(calls) < 2 THEN "call" ELSE "format"
       /\ UNCHANGED exc
  ELSE /\ exc' = e
       /\ pc' = "raised"
       /\ UNCHANGED <<log, result>>

\* lines 25-28: an exception surfaces at the await inside the try
AwaitRaises(e) ==
  IF run_prediction_catches(e)
  THEN /\ log' = LoggedError(log, logLevel, "run_prediction", PredictionFailed(e))
       /\ result' = None
       /\ pc' = "format"
       /\ UNCHANGED exc
  ELSE /\ exc' = e
       /\ pc' = "raised"
       /\ UNCHANGED <<log, result>>

\* line 25: the awaited call returns
EngineReturns ==
  /\ pc = "await"
  /\ \E r \in Results :
       /\ engineOut' = Returned(r)
       /\ result' = r
  /\ pc' = "format"
  /\ UNCHANGED <<argv, logLevel, log, stdout, stderr, calls, output, text, exc, exitCode, steps, sigint>>

\* lines 25-28: the awaited call raises
EngineRaises ==
  /\ pc = "await"
  /\ \E e \in EngineExceptions :
       /\ engineOut' = Raised(e)
       /\ AwaitRaises(e)
  /\ UNCHANGED <<argv, logLevel, stdout, stderr, calls, output, text, exitCode, steps, sigint>>

\* line 58: format_result(result)
Format ==
  /\ pc = "format"
  /\ steps' = Append(steps, "format_result")
  /\ LET out == format_result(result)
     IN  IF out.ok
         THEN /\ text' = out.text
              /\ output' = out.output
              /\ pc' = "print"
              /\ UNCHANGED exc
         ELSE /\ exc' = out.exc
              /\ pc' = "raised"
              /\ UNCHANGED <<text, output>>
  /\ UNCHANGED <<argv, logLevel, log, stdout, stderr, calls, engineOut, result, exitCode, sigint>>

\* line 58: print(...)
PrintText ==
  /\ pc = "print"
  /\ steps' = Append(steps, "print")
  /\ stdout' = Append(stdout, text)
  /\ pc' = "returned"
  /\ UNCHANGED <<argv, logLevel, log, stderr, calls, engineOut, result, output, text, exc, exitCode, sigint>>

\* line 62: main returns; asyncio.run returns and the script ends, unless the
\* cancellation of main was requested while it ran: it then ends cancelled
Finish ==
  /\ pc = "returned"
  /\ IF sigint
     THEN /\ exc' = CancelledError
          /\ pc' = "raised"
          /\ UNCHANGED exitCode
     ELSE /\ exitCode' = 0
          /\ pc' = "done"
          /\ UNCHANGED exc
  /\ UNCHANGED <<argv, logLevel, log, stdout, stderr, calls, engineOut, result, output, text, steps, sigint>>

\* the points at which main runs (it is suspended only at the await)
Running == {"parse", "config", "call", "format", "print", "returned"}

\* line 62: the exception asyncio.run raises when main ends with e: a main
\* that ends cancelled after an interrupt gives KeyboardInterrupt
asyncio_run_raises(e, interrupted) ==
  IF e.kind = "CancelledError" /\ interrupted THEN KeyboardInterrupt ELSE e

\* the user interrupts the run while main is running, and KeyboardInterrupt
\* is raised where the process is
InterruptRaises ==
  /\ ~sigint
  /\ pc \in Running
  /\ sigint' = TRUE
  /\ exc' = KeyboardInterrupt
  /\ pc' = "raised"
  /\ UNCHANGED <<argv, logLevel, log, stdout, stderr, calls, engineOut, result, output, text, exitCode, steps>>

\* the user interrupts the run while main is running, and asyncio.run
\* requests the cancellation of main, which runs on
InterruptDefers ==
  /\ ~sigint
  /\ pc \in Running
  /\ sigint' = TRUE
  /\ UNCHANGED <<argv, pc, logLevel, log, stdout, stderr, calls, engineOut, result, output, text, exc, exitCode, steps>>

\* lines 25-28: the user interrupts the run while main is suspended at the
\* await: the await is cancelled
InterruptAtAwait ==
  /\ ~sigint
  /\ pc = "await"
  /\ sigint' = TRUE
  /\ AwaitRaises(CancelledError)
  /\ UNCHANGED <<argv, logLevel, stdout, stderr, calls, engineOut, output, text, exitCode, steps>>

\* lines 25-28: the cancellation requested while main was running is delivered
\* when the awaited call suspends
DeliverCancel ==
  /\ sigint
  /\ pc = "await"
  /\ AwaitRaises(CancelledError)
  /\ UNCHANGED <<argv, logLevel, stdout, stderr, calls, engineOut, output, text, exitCode, sigint, steps>>

\* lines 63-64
HandleKeyboardInterrupt ==
  /\ pc = "raised"
  /\ asyncio_run_raises(exc, sigint).kind = "KeyboardInterrupt"
  /\ exc' = asyncio_run_raises(exc, sigint)
  /\ stdout' = Append(stdout, Cancelled)
  /\ exitCode' = 0
  /\ pc' = "done"
  /\ UNCHANGED <<argv, logLevel, log, stderr, calls, engineOut, result, output, text, steps, sigint>>

\* lines 65-67
HandleException ==
  /\ pc = "raised"
  /\ asyncio_run_raises(exc, sigint).kind # "KeyboardInterrupt"
  /\ main_catches(exc)
  /\ log' = LoggedError(log, logLevel, "<module>", FatalError(exc))
  /\ exitCode' = 1
  /\ pc' = "done"
  /\ UNCHANGED <<argv, logLevel, stdout, stderr, calls, engineOut, result, output, text, exc, steps, sigint>>

\* neither handler of lines 63-67 matches: a SystemExit ends the process with
\* its status, any other exception with a traceback and status 1
Uncaught ==
  /\ pc = "raised"
  /\ asyncio_run_raises(exc, sigint).kind # "KeyboardInterrupt"
  /\ ~main_catches(exc)
  /\ IF exc.kind = "SystemExit"
     THEN /\ exitCode' = exc.code
          /\ UNCHANGED stderr
     ELSE /\ exitCode' = 1
          /\ stderr' = Append(stderr, "traceback")
  /\ pc' = "done"
  /\ UNCHANGED <<argv, logLevel, log, stdout, calls, engineOut, result, output, text, exc, steps, sigint>>

Next ==
  \/ ParseArgs
  \/ ConfigureLogging
  \/ CallEngine
  \/ EngineReturns
  \/ EngineRaises
  \/ Format
  \/ PrintText
  \/ Finish
  \/ InterruptRaises
  \/ InterruptDefers
  \/ InterruptAtAwait
  \/ DeliverCancel
  \/ HandleKeyboardInterrupt
  \/ HandleException
  \/ Uncaught

Spec == Init /\ [][Next]_vars

\* ---------------------------------------------------------------- properties
\* the records run_prediction logged, and those the __main__ block logged
LoggedBy(funcName) == SelectSeq(log, LAMBDA r : r.funcName = funcName)
ErrorRecord(funcName, msg) == [level |-> "ERROR", funcName |-> funcName, msg |-> msg]

EngineRaised == engineOut.exc # NoExc
EngineRaisedException == engineOut.exc.kind \in ExceptionClasses
Interrupted == sigint
Did(step) == \E i \in 1..Len(steps) : steps[i] = step
Numeric(v) == v.t \in {"int", "float"}

\* C1 as stated: whatever exception the awaited call raised, run_prediction
\* returned None and the exception is never in flight outside it.
C1_AnyExceptionContained ==
  EngineRaised => /\ pc # "await"
                  /\ result = None
                  /\ exc # engineOut.exc

\* C1 amended: every exception deriving from Exception that the awaited call
\* raises is contained: run_prediction returns None and the exception is never
\* in flight outside it, whatever (pitcher, opponent, park) it was called with.
C1_ExceptionContained ==
  EngineRaisedException => /\ pc # "await"
                           /\ result = None
                           /\ exc # engineOut.exc

C1_Witness ==
  /\ engineOut.exc = Exc("RuntimeError", "network timeout")
  /\ calls = << <<"Paul Skenes", "PHI", "PNC Park">> >>
  /\ pc = "format"
  /\ result = None

\* C8 as stated: a call of run_prediction logged exactly one error record, with
\* the exception's message, if the awaited call raised, and none if it returned.
C8_OneErrorPerRaise ==
  /\ EngineRaised =>
       LoggedBy("run_prediction") =
         <<ErrorRecord("run_prediction", "Prediction failed: " \o engineOut.exc.msg)>>
  /\ engineOut.returned => LoggedBy("run_prediction") = <<>>

\* C8 amended: a call of run_prediction logged exactly one error record, with
\* the exception's message, if the awaited call raised an exception deriving
\* from Exception, and none if the call returned.
C8_OneErrorPerException ==
  /\ EngineRaisedException =>
       LoggedBy("run_prediction") =
         <<ErrorRecord("run_prediction", "Prediction failed: " \o engineOut.exc.msg)>>
  /\ engineOut.returned => LoggedBy("run_prediction") = <<>>

C8_Witness ==
  /\ engineOut.exc = Exc("RuntimeError", "network timeout")
  /\ log = <<ErrorRecord("run_prediction", "Prediction failed: network timeout")>>
  /\ pc = "format"

\* C4 as stated: in a run with valid arguments that the user does not
\* interrupt and in which the awaited call raised, the warning is the only
\* output, the failure was logged before anything was printed, and the process
\* ends with status 0.
C4_RaiseEndsInWarning ==
  (EngineRaised /\ ~Interrupted) =>
    /\ stdout # <<>> => LoggedBy("run_prediction") # <<>>
    /\ pc = "done" => /\ stdout = <<NoProjection>>
                      /\ exitCode = 0
                      /\ LoggedBy("<module>") = <<>>

\* C4 amended: in a run with valid arguments that the user does not interrupt
\* and in which the awaited call raised an exception deriving from Exception,
\* the warning is the only output, the failure was logged before anything was
\* printed, and the process ends with status 0, not through the fatal path.
C4_ExceptionEndsInWarning ==
  (EngineRaisedException /\ ~Interrupted) =>
    /\ stdout # <<>> => LoggedBy("run_prediction") # <<>>
    /\ pc = "done" => /\ stdout = <<NoProjection>>
                      /\ exitCode = 0
                      /\ LoggedBy("<module>") = <<>>

C4_Witness ==
  /\ parse_accepts(argv)
  /\ engineOut.exc = Exc("RuntimeError", "network timeout")
  /\ pc = "done"
  /\ stdout = <<NoProjection>>
  /\ exitCode = 0

\* the result holds pitcher, opponent and a numeric mean
HasCore ==
  /\ result.some
  /\ {"pitcher", "opponent", "mean"} \subseteq DOMAIN result.d
  /\ Numeric(result.d["mean"])

\* the line of an optional key rendered with str(): its own value, or the default
ExpectedLine(label, key, default) ==
  label \o (IF key \in DOMAIN result.d THEN Str(result.d[key]) ELSE default)

\* the block holds the documented default for every missing optional key and
\* the mapping's own value for every present one
DefaultsRendered ==
  /\ text # ""
  /\ Len(output) = 6
  /\ text = Join(output)
  /\ output[3] = ExpectedLine("Vegas Line: ", "vegas_line", "N/A")
  /\ output[4] = ExpectedLine("Edge: ", "edge", "N/A")
  /\ output[5] = "Over 6.5 Probability: " \o
                 (IF "prob_over_6.5" \in DOMAIN result.d
                  THEN Fmt1f(result.d["prob_over_6.5"]).text ELSE "0.0") \o "%"
  /\ output[6] = ExpectedLine("Key Stats: ", "lineup_source", "Lineup source unknown")

\* C2 as stated: format_result succeeds on every mapping that holds pitcher,
\* opponent and a numeric mean, whichever optional keys are missing, and
\* renders the default of each missing key and the value of each present one.
C2_TotalOverOptionalKeys ==
  (Did("format_result") /\ HasCore) => DefaultsRendered

\* C2 amended: format_result succeeds on every mapping that holds pitcher,
\* opponent and a numeric mean and whose prob_over_6.5, when present, is
\* numeric, whichever optional keys are missing, and renders the default of
\* each missing key and the value of each present one.
C2_TotalOverMissingKeys ==
  (/\ Did("format_result")
   /\ HasCore
   /\ "prob_over_6.5" \in DOMAIN result.d => Numeric(result.d["prob_over_6.5"]))
  => DefaultsRendered

C2_Witness ==
  /\ Did("format_result")
  /\ result = Dict([k \in {"pitcher", "opponent", "mean"} |->
                     CASE k = "pitcher" -> StrV("Paul Skenes")
                       [] k = "opponent" -> StrV("PHI")
                       [] OTHER -> FloatV(3)])
  /\ output = << "\n=== Paul Skenes vs PHI ===", "Projected Ks: 0.8",
                 "Vegas Line: N/A", "Edge: N/A", "Over 6.5 Probability: 0.0%",
                 "Key Stats: Lineup source unknown" >>

\* a present, non-empty mapping is rendered as the block or makes format_result raise
BlockOrError ==
  \/ /\ Len(output) = 6
     /\ text = Join(output)
     /\ text # NoProjection
  \/ /\ text = ""
     /\ pc \in {"raised", "done"}
     /\ exc.kind \in {"KeyError", "TypeError", "ValueError"}

\* C3 as stated: format_result returns the warning if and only if the result is
\* None; every mapping, the one with no keys included, is rendered as the block
\* or makes format_result raise.
C3_WarningIffNone ==
  Did("format_result") =>
    /\ text = NoProjection <=> ~result.some
    /\ result.some => BlockOrError

\* C3 amended: format_result returns the warning if and only if the result is
\* None or a mapping with no keys; every mapping that holds a key is rendered
\* as the block or makes format_result raise.
C3_WarningIffFalsy ==
  Did("format_result") =>
    /\ text = NoProjection <=> (~result.some \/ DOMAIN result.d = {})
    /\ (result.some /\ DOMAIN result.d # {}) => BlockOrError

C3_Witness ==
  /\ Did("format_result")
  /\ result = Dict(EmptyMap)
  /\ text = NoProjection

\* C10: when prob_over_6.5 is present with a value that is not a number,
\* format_result raises instead of rendering the default; run_prediction does
\* not contain the failure, nothing is printed, and the run ends on the fatal
\* path: "Fatal error" logged once, status 1.
C10_UnusableProbIsFatal ==
  (/\ Did("format_result")
   /\ result.some
   /\ "prob_over_6.5" \in DOMAIN result.d
   /\ ~Numeric(result.d["prob_over_6.5"]))
  => /\ text = ""
     /\ output = <<>>
     /\ exc.kind \in ExceptionClasses
     /\ pc \in {"raised", "done"}
     /\ LoggedBy("run_prediction") = <<>>
     /\ stdout = <<>>
     /\ pc = "done" =>
          /\ exitCode = 1
          /\ log = <<ErrorRecord("<module>", "Fatal error: " \o exc.msg)>>

C10_Witness ==
  /\ pc = "done"
  /\ HasCore
  /\ "prob_over_6.5" \in DOMAIN result.d
  /\ result.d["prob_over_6.5"] = NoneV
  /\ exc.kind = "TypeError"
  /\ exitCode = 1
  /\ stdout = <<>>

\* a required argument is left out of the command line
OmitsRequired ==
  \/ argv.command = ""
  \/ argv.pitcher = Missing
  \/ argv.opponent = Missing

EscapedFailure ==
  /\ exc # NoExc
  /\ asyncio_run_raises(exc, sigint) # KeyboardInterrupt
  /\ exc # engineOut.exc
  /\ ~OmitsRequired /\ argv.command = "predict"

\* C6: a failure that escapes main and is not an engine failure, a usage error
\* or an interrupt is logged once as "Fatal error", ends the process with
\* status 1, and nothing is printed.
C6_EscapedFailureIsFatal ==
  EscapedFailure =>
    /\ stdout = <<>>
    /\ pc \in {"raised", "done"}
    /\ pc = "done" =>
         /\ exitCode = 1
         /\ LoggedBy("<module>") = <<ErrorRecord("<module>", "Fatal error: " \o exc.msg)>>

C6_Witness ==
  /\ pc = "done"
  /\ result.some
  /\ "pitcher" \notin DOMAIN result.d
  /\ exc = Exc("KeyError", "'pitcher'")
  /\ exitCode = 1
  /\ log = <<ErrorRecord("<module>", "Fatal error: 'pitcher'")>>

\* C7 as stated: a run the user interrupted, at whatever point, ends with the
\* cancellation notice as its last output, with no "Fatal error" record and
\* not with status 1.
C7_AnyInterruptReachesTop ==
  (sigint /\ pc = "done") =>
    /\ stdout # <<>>
    /\ stdout[Len(stdout)] = Cancelled
    /\ LoggedBy("<module>") = <<>>
    /\ exitCode # 1

\* an interrupt surfaces in main: as KeyboardInterrupt where the process is,
\* or as the cancellation of the await inside run_prediction
InterruptSurfaces == InterruptRaises \/ InterruptAtAwait \/ DeliverCancel

\* C7 amended: an interrupt that surfaces in main, as KeyboardInterrupt or as
\* the cancellation of the await inside run_prediction, is not handled by
\* run_prediction (no result is set, nothing is logged): it leaves main, the
\* __main__ block prints the cancellation notice and the process ends with
\* status 0 and no "Fatal error" record; nothing but the notice is printed
\* once the interrupt has surfaced.
C7_InterruptReachesTop ==
  /\ [][InterruptSurfaces =>
          /\ pc' = "raised"
          /\ asyncio_run_raises(exc', sigint') = KeyboardInterrupt
          /\ result' = result
          /\ log' = log
          /\ stdout' = stdout]_vars
  /\ [][(pc = "raised" /\ asyncio_run_raises(exc, sigint) = KeyboardInterrupt) =>
          /\ pc' = "done"
          /\ stdout' = Append(stdout, Cancelled)
          /\ exitCode' = 0
          /\ log' = log
          /\ LoggedBy("<module>") = <<>>]_vars

C7_Witness ==
  /\ pc = "done"
  /\ sigint
  /\ exc = KeyboardInterrupt
  /\ Len(calls) = 1
  /\ engineOut = NoOutcome
  /\ stdout = <<Cancelled>>
  /\ log = <<>>
  /\ exitCode = 0

Order == <<"parse_args", "basicConfig", "run_prediction", "format_result", "print">>

\* C9: the steps of a run are a prefix of parse, configure logging, await the
\* projection, format, print; the engine is called at most once and only after
\* logging is configured; what is printed is the formatting of what that one
\* call produced.
C9_StepsInOrderOnce ==
  /\ Len(steps) <= Len(Order)
  /\ steps = SubSeq(Order, 1, Len(steps))
  /\ Len(calls) <= 1
  /\ calls # <<>> => logLevel # "unset"
  /\ engineOut # NoOutcome => Len(calls) = 1
  /\ ~Did("print") => stdout \in {<<>>, <<Cancelled>>}
  /\ Did("print") =>
       /\ stdout \in {<<text>>, <<text, Cancelled>>}
       /\ stdout[1] = format_result(IF engineOut.returned THEN engineOut.value
                                    ELSE None).text

C9_Witness ==
  /\ pc = "done"
  /\ steps = Order
  /\ Len(calls) = 1
  /\ engineOut.returned
  /\ HasCore
  /\ stdout = <<text>>
  /\ Len(output) = 6

====
